---- MODULE Spec2Model ----
(***************************************************************************)
(* Moving-load analysis of a simply supported beam (beam_analysis/beam.py). *)
(*                                                                         *)
(* Python floats are modelled as exact rationals in lowest terms plus the  *)
(* IEEE not-a-number value; rounding error is not modelled.  A value is a  *)
(* record [k, n, d]: k = "num" for the rational n/d (d > 0), k = "nan" for  *)
(* float('nan') and k = "None" for Python's None.                          *)
(***************************************************************************)
EXTENDS Integers, Sequences, FiniteSets, TLC

\* ------------------------------------------------------------------------
\* Bounds of the model
\* ------------------------------------------------------------------------
\* largest beam length tried
MaxL == 4
\* largest point load / UDL intensity tried
MaxW == 2
\* largest load spacing / UDL length tried (exceeds MaxL: loads off the span)
MaxX == 5
\* denominator of the stand-in for the 1e-9 offset of _calculate_ild_area
EpsDen == 1000

\* ------------------------------------------------------------------------
\* Float arithmetic
\* ------------------------------------------------------------------------
Abs(i) == IF i < 0 THEN -i ELSE i

RECURSIVE GCD(_, _)
GCD(a, b) == IF b = 0 THEN a ELSE GCD(b, a % b)

NaN == [k |-> "nan", n |-> 0, d |-> 0]

None == [k |-> "None", n |-> 0, d |-> 0]

\* the rational n/d in lowest terms, d # 0
Num(n, d) ==
    LET g == GCD(Abs(n), Abs(d))
        s == IF d < 0 THEN -1 ELSE 1
    IN  [k |-> "num", n |-> s * (n \div g), d |-> s * (d \div g)]

Rat(i) == Num(i, 1)

IsNum(a) == a.k = "num"

IsNaN(a) == a.k = "nan"

\* float('inf') and float('-inf'): sign is 1 or -1
InfOf(sign) == [k |-> "inf", n |-> sign, d |-> 0]

Inf == InfOf(1)

IsInf(a) == a.k = "inf"

\* -1, 0 or 1 for a finite or infinite number
SignOf(a) == IF a.n < 0 THEN -1 ELSE IF a.n > 0 THEN 1 ELSE 0

Add(a, b) ==
    IF IsNum(a) /\ IsNum(b) THEN Num(a.n * b.d + b.n * a.d, a.d * b.d)
    ELSE IF IsInf(a) /\ IsInf(b) THEN (IF a.n = b.n THEN a ELSE NaN)
    ELSE IF IsInf(a) /\ IsNum(b) THEN a
    ELSE IF IsNum(a) /\ IsInf(b) THEN b
    ELSE NaN

Sub(a, b) ==
    IF IsNum(a) /\ IsNum(b) THEN Num(a.n * b.d - b.n * a.d, a.d * b.d)
    ELSE IF IsInf(a) /\ IsInf(b) THEN (IF a.n # b.n THEN a ELSE NaN)
    ELSE IF IsInf(a) /\ IsNum(b) THEN a
    ELSE IF IsNum(a) /\ IsInf(b) THEN InfOf(-b.n)
    ELSE NaN

Mul(a, b) ==
    IF IsNum(a) /\ IsNum(b) THEN Num(a.n * b.n, a.d * b.d)
    ELSE IF (IsNum(a) \/ IsInf(a)) /\ (IsNum(b) \/ IsInf(b))
         THEN (IF SignOf(a) * SignOf(b) = 0 THEN NaN ELSE InfOf(SignOf(a) * SignOf(b)))
    ELSE NaN

\* the divisor is never zero where the program divides (L > 0, W_total > 0)
Div(a, b) ==
    IF IsNum(a) /\ IsNum(b) THEN Num(a.n * b.d, a.d * b.n)
    ELSE IF IsNum(a) /\ IsInf(b) THEN Num(0, 1)
    ELSE IF IsInf(a) /\ IsNum(b) THEN InfOf(a.n * SignOf(b))
    ELSE NaN

Neg(a) == IF IsNum(a) THEN Num(-a.n, a.d) ELSE IF IsInf(a) THEN InfOf(-a.n) ELSE NaN

\* comparisons: every comparison with NaN is False
Lt(a, b) ==
    IF IsNum(a) /\ IsNum(b) THEN a.n * b.d < b.n * a.d
    ELSE IF IsInf(a) /\ IsInf(b) THEN a.n < b.n
    ELSE IF IsInf(a) /\ IsNum(b) THEN a.n < 0
    ELSE IF IsNum(a) /\ IsInf(b) THEN b.n > 0
    ELSE FALSE

Le(a, b) ==
    IF IsNum(a) /\ IsNum(b) THEN a.n * b.d <= b.n * a.d
    ELSE IF IsInf(a) /\ IsInf(b) THEN a.n <= b.n
    ELSE IF IsInf(a) /\ IsNum(b) THEN a.n < 0
    ELSE IF IsNum(a) /\ IsInf(b) THEN b.n > 0
    ELSE FALSE

Gt(a, b) == Lt(b, a)

Ge(a, b) == Le(b, a)

Eq(a, b) ==
    IF IsNum(a) /\ IsNum(b) THEN a.n * b.d = b.n * a.d
    ELSE IsInf(a) /\ IsInf(b) /\ a.n = b.n

\* Python's max(a, b): the first argument unless the second is greater
PyMax(a, b) == IF Gt(b, a) THEN b ELSE a

\* Python's min(a, b): the first argument unless the second is smaller
PyMin(a, b) == IF Lt(b, a) THEN b ELSE a

Zero == Rat(0)

Two == Rat(2)

Four == Rat(4)

Eight == Rat(8)

Half == Num(1, 2)

\* ------------------------------------------------------------------------
\* Domain classes
\* ------------------------------------------------------------------------
SIMPLY_SUPPORTED == "simply_supported"

POINT_TWO == "point_two"

UDL == "udl"

NoObject == [cls |-> "NoneType"]

NoException == "none"

\* Beam.__init__: the exception raised, or NoException
Beam_raises(length) ==
    IF Le(length, Zero) THEN "ValueError: Beam length must be positive." ELSE NoException

Beam(length, beam_type) == [cls |-> "Beam", length |-> length, type |-> beam_type]

\* PointLoadSystem.__init__: the exception raised, or NoException
PointLoadSystem_raises(w1, w2, x) ==
    IF Lt(w1, Zero) \/ Lt(w2, Zero) THEN "ValueError: Load values cannot be negative."
    ELSE IF Lt(x, Zero) THEN "ValueError: Distance between loads cannot be negative."
    ELSE NoException

PointLoadSystem(w1, w2, x) ==
    [cls |-> "PointLoadSystem", LOAD_TYPE |-> POINT_TWO, w1 |-> w1, w2 |-> w2, x |-> x]

\* variant: a zero UDL length is accepted (length_udl < 0 for <= 0)
UDLLoadSystem_raises_negative_only(w, length_udl) ==
    IF Lt(w, Zero) THEN "ValueError: UDL intensity (w) cannot be negative."
    ELSE IF Lt(length_udl, Zero) THEN "ValueError: UDL length must be positive."
    ELSE NoException

\* UDLLoadSystem.__init__: the exception raised, or NoException
UDLLoadSystem_raises(w, length_udl) ==
    IF Lt(w, Zero) THEN "ValueError: UDL intensity (w) cannot be negative."
    ELSE IF Le(length_udl, Zero) THEN "ValueError: UDL length must be positive."
    ELSE NoException

UDLLoadSystem(w, length_udl) ==
    [cls |-> "UDLLoadSystem", LOAD_TYPE |-> UDL, w |-> w, length |-> length_udl]

\* a further subclass of LoadSystemBase, with a load-type tag of its own
OtherLoadSystem(tag) == [cls |-> "OtherLoadSystem", LOAD_TYPE |-> tag]

get_load_type(load_system) == load_system.LOAD_TYPE

W_total(loads) == Add(loads.w1, loads.w2)

NoError == "None"

\* AnalysisResults(load_type=..., error=...): the dataclass defaults
AnalysisResults(load_type, error) ==
    [load_type |-> load_type,
     Ra_max |-> Zero, Rb_max |-> Zero, SFmax |-> Zero, y_SF_max |-> Zero,
     BM_01 |-> Zero, SF01 |-> Zero,
     max_pos_M_mid |-> Zero, max_pos_SF_mid |-> Zero, max_neg_SF_mid |-> Zero,
     BM_max |-> Zero, z_BM_max |-> Zero,
     error |-> error]

\* ------------------------------------------------------------------------
\* Two-point-load analysis: _analyze_simply_supported_point
\* ------------------------------------------------------------------------
\* res.Ra_max = W1 + W2 * max(0, L - x) / L
point_Ra_max(L, W1, W2, x) == Add(W1, Div(Mul(W2, PyMax(Zero, Sub(L, x))), L))

\* variant: the clamp max(0, L - x) is missing
point_Rb_max_unclamped(L, W1, W2, x) == Div(Add(Mul(W1, Sub(L, x)), Mul(W2, L)), L)

\* res.Rb_max = (W1 * max(0, L - x) + W2 * L) / L
point_Rb_max(L, W1, W2, x) == Div(Add(Mul(W1, PyMax(Zero, Sub(L, x))), Mul(W2, L)), L)

\* res.SF_max = max(res.Ra_max, res.Rb_max)
SFmax_of(Ra, Rb) == PyMax(Ra, Rb)

\* variant: the tie Ra_max = Rb_max is sent to support B
y_SF_max_of_strict(Ra, Rb, L) == IF Gt(Ra, Rb) THEN Zero ELSE L

\* res.y_SF_max = 0.0 if res.Ra_max >= res.Rb_max else L
y_SF_max_of(Ra, Rb, L) == IF Ge(Ra, Rb) THEN Zero ELSE L

\* variant: the test x >= L is missing
point_BM_01_unguarded(L, W1, W2, x) == Mul(Div(Mul(W2, x), L), Sub(L, x))

\* if x >= L: res.BM_01 = 0.0  else: res.BM_01 = (W2 * x / L) * (L - x)
point_BM_01(L, W1, W2, x) ==
    IF Ge(x, L) THEN Zero ELSE Mul(Div(Mul(W2, x), L), Sub(L, x))

\* the reaction expression the function uses for loads at pos1 and pos2:
\* (W1*max(0, L-pos1) + W2*max(0, L-pos2)) / L
Ra_expr(L, W1, W2, pos1, pos2) ==
    Div(Add(Mul(W1, PyMax(Zero, Sub(L, pos1))), Mul(W2, PyMax(Zero, Sub(L, pos2)))), L)

\* pos_W1_sf01 = L/2.0; pos_W2_sf01 = pos_W1_sf01 + x; res.SF_01 = Ra_for_SF01
point_SF_01(L, W1, W2, x) ==
    LET pos_W1_sf01 == Div(L, Two)
        pos_W2_sf01 == Add(pos_W1_sf01, x)
    IN  Ra_expr(L, W1, W2, pos_W1_sf01, pos_W2_sf01)

\* a = W2*x/R with R = W_total
dist_a(L, W1, W2, x) == Div(Mul(W2, x), Add(W1, W2))

\* variant: the whole of a (not a/2) is taken off L/2
cand_z1_whole_a(L, W1, W2, x) == Sub(Div(L, Two), dist_a(L, W1, W2, x))

\* z1 = L/2.0 - a/2.0
cand_z1(L, W1, W2, x) == Sub(Div(L, Two), Div(dist_a(L, W1, W2, x), Two))

\* M1 = -1.0; if 0 <= z1 <= L: Ra1 = ...; M1 = Ra1*z1
cand_M1(L, W1, W2, x) ==
    LET z1 == cand_z1(L, W1, W2, x)
    IN  IF Le(Zero, z1) /\ Le(z1, L)
        THEN Mul(Ra_expr(L, W1, W2, z1, Add(z1, x)), z1)
        ELSE Rat(-1)

\* z2 = L/2.0 + (x - a)/2.0
cand_z2(L, W1, W2, x) == Add(Div(L, Two), Div(Sub(x, dist_a(L, W1, W2, x)), Two))

\* M2 = -1.0; if 0 <= z2 <= L: p1_c2 = z2 - x; Ra2 = ...;
\* arm_w1 = x if p1_c2 >= 0 else 0; M2 = Ra2*z2 - W1*arm_w1
cand_M2(L, W1, W2, x) ==
    LET z2 == cand_z2(L, W1, W2, x)
        p1_c2 == Sub(z2, x)
        Ra2 == Ra_expr(L, W1, W2, p1_c2, z2)
        arm_w1 == IF Ge(p1_c2, Zero) THEN x ELSE Zero
    IN  IF Le(Zero, z2) /\ Le(z2, L)
        THEN Sub(Mul(Ra2, z2), Mul(W1, arm_w1))
        ELSE Rat(-1)

\* the else-branch of the BM_max cascade: <<BM_max, z_BM_max, branch>>
general_BM_max(L, W1, W2, x) ==
    LET M1 == cand_M1(L, W1, W2, x)
        M2 == cand_M2(L, W1, W2, x)
    IN  IF Ge(M1, Zero) /\ Ge(M1, M2) THEN <<M1, cand_z1(L, W1, W2, x), "M1">>
        ELSE IF Ge(M2, Zero) THEN <<M2, cand_z2(L, W1, W2, x), "M2">>
        ELSE <<Div(Mul(PyMax(W1, W2), L), Four), Div(L, Two), "fallback">>

\* variant: the case x >= L uses the total load, as the case x == 0 does
point_BM_max_total(L, W1, W2, x) ==
    IF Eq(W1, Zero) THEN <<Div(Mul(W2, L), Four), Div(L, Two), "W1==0">>
    ELSE IF Eq(W2, Zero) THEN <<Div(Mul(W1, L), Four), Div(L, Two), "W2==0">>
    ELSE IF Eq(x, Zero) THEN <<Div(Mul(Add(W1, W2), L), Four), Div(L, Two), "x==0">>
    ELSE IF Ge(x, L) THEN <<Div(Mul(Add(W1, W2), L), Four), Div(L, Two), "x>=L">>
    ELSE general_BM_max(L, W1, W2, x)

\* the BM_max cascade: <<BM_max, z_BM_max, branch>>
point_BM_max(L, W1, W2, x) ==
    IF Eq(W1, Zero) THEN <<Div(Mul(W2, L), Four), Div(L, Two), "W1==0">>
    ELSE IF Eq(W2, Zero) THEN <<Div(Mul(W1, L), Four), Div(L, Two), "W2==0">>
    ELSE IF Eq(x, Zero) THEN <<Div(Mul(Add(W1, W2), L), Four), Div(L, Two), "x==0">>
    ELSE IF Ge(x, L) THEN <<Div(Mul(PyMax(W1, W2), L), Four), Div(L, Two), "x>=L">>
    ELSE general_BM_max(L, W1, W2, x)

\* variant: the early return on zero total load is missing
point_no_load_never(total) == FALSE

\* if W_total == 0: return res
point_no_load(total) == Eq(total, Zero)

_analyze_simply_supported_point(beam, loads) ==
    LET L == beam.length
        W1 == loads.w1
        W2 == loads.w2
        x == loads.x
        res == AnalysisResults(POINT_TWO, NoError)
        Ra == point_Ra_max(L, W1, W2, x)
        Rb == point_Rb_max(L, W1, W2, x)
        bm == point_BM_max(L, W1, W2, x)
    IN  IF point_no_load(W_total(loads)) THEN res
        ELSE [res EXCEPT !.Ra_max = Ra, !.Rb_max = Rb,
                         !.SFmax = SFmax_of(Ra, Rb),
                         !.y_SF_max = y_SF_max_of(Ra, Rb, L),
                         !.BM_01 = point_BM_01(L, W1, W2, x),
                         !.SF01 = point_SF_01(L, W1, W2, x),
                         !.BM_max = bm[1], !.z_BM_max = bm[2],
                         !.max_pos_M_mid = None, !.max_pos_SF_mid = None,
                         !.max_neg_SF_mid = None]

\* ------------------------------------------------------------------------
\* Influence-line ordinates and their area
\* ------------------------------------------------------------------------
\* the offset 1e-9 that keeps an ordinate on its own side of midspan
Eps == Num(1, EpsDen)

_get_ra_ild_ordinate(pos, L) ==
    IF Le(Zero, pos) /\ Le(pos, L) /\ Gt(L, Zero) THEN Div(Sub(L, pos), L) ELSE Zero

\* variant: the reaction-B ordinate is a copy of the reaction-A ordinate
_get_rb_ild_ordinate_as_ra(pos, L) ==
    IF Le(Zero, pos) /\ Le(pos, L) /\ Gt(L, Zero) THEN Div(Sub(L, pos), L) ELSE Zero

_get_rb_ild_ordinate(pos, L) ==
    IF Le(Zero, pos) /\ Le(pos, L) /\ Gt(L, Zero) THEN Div(pos, L) ELSE Zero

_get_sf_mid_ild_ordinate(pos, L) ==
    LET mid == Div(L, Two)
    IN  IF Le(Zero, pos) /\ Lt(pos, mid) /\ Gt(L, Zero) THEN Div(Neg(pos), L)
        ELSE IF Le(mid, pos) /\ Le(pos, L) /\ Gt(L, Zero) THEN Div(Sub(L, pos), L)
        ELSE Zero

_get_bm_mid_ild_ordinate(pos, L) ==
    LET mid == Div(L, Two)
    IN  IF Le(Zero, pos) /\ Le(pos, mid) /\ Gt(L, Zero) THEN Div(Mul(pos, mid), L)
        ELSE IF Lt(mid, pos) /\ Le(pos, L) /\ Gt(L, Zero) THEN Div(Mul(Sub(L, pos), mid), L)
        ELSE Zero

\* the call ild_ordinate_func(pos, L); the function is passed by its name
ild_ordinate_func(f, pos, L) ==
    CASE f = "_get_ra_ild_ordinate" -> _get_ra_ild_ordinate(pos, L)
      [] f = "_get_rb_ild_ordinate" -> _get_rb_ild_ordinate(pos, L)
      [] f = "_get_sf_mid_ild_ordinate" -> _get_sf_mid_ild_ordinate(pos, L)
      [] f = "_get_bm_mid_ild_ordinate" -> _get_bm_mid_ild_ordinate(pos, L)

\* 0.5 * (y_s + y_e) * (e - s)
trapezoid(y_s, y_e, s, e) == Mul(Mul(Half, Add(y_s, y_e)), Sub(e, s))

\* the midspan-shear branch, after clipping
sf_mid_area(start, end, L) ==
    LET mid == Div(L, Two)
        eff_end_l == PyMin(end, mid)
        left == IF Lt(start, mid)
                THEN trapezoid(_get_sf_mid_ild_ordinate(start, L),
                               _get_sf_mid_ild_ordinate(Sub(eff_end_l, Eps), L),
                               start, eff_end_l)
                ELSE Zero
        eff_start_r == PyMax(start, mid)
        right == IF Gt(end, mid)
                 THEN trapezoid(_get_sf_mid_ild_ordinate(Add(eff_start_r, Eps), L),
                                _get_sf_mid_ild_ordinate(end, L),
                                eff_start_r, end)
                 ELSE Zero
    IN  Add(Add(Zero, left), right)

\* the midspan-moment branch, after clipping
bm_mid_area(start, end, L) ==
    LET mid == Div(L, Two)
        eff_end_l == PyMin(end, mid)
        left == IF Le(start, mid)
                THEN trapezoid(_get_bm_mid_ild_ordinate(start, L),
                               _get_bm_mid_ild_ordinate(eff_end_l, L),
                               start, eff_end_l)
                ELSE Zero
        eff_start_r == PyMax(start, mid)
        right == IF Gt(end, mid)
                 THEN trapezoid(_get_bm_mid_ild_ordinate(eff_start_r, L),
                                _get_bm_mid_ild_ordinate(end, L),
                                eff_start_r, end)
                 ELSE Zero
    IN  Add(Add(Zero, left), right)

_calculate_ild_area(f, start0, end0, L) ==
    IF Ge(start0, end0) \/ Le(L, Zero) THEN Zero
    ELSE LET start == PyMax(Zero, start0)
             end == PyMin(L, end0)
         IN  IF Ge(start, end) THEN Zero
             ELSE IF f = "_get_sf_mid_ild_ordinate" THEN sf_mid_area(start, end, L)
             ELSE IF f = "_get_bm_mid_ild_ordinate" THEN bm_mid_area(start, end, L)
             ELSE trapezoid(ild_ordinate_func(f, start, L), ild_ordinate_func(f, end, L),
                            start, end)

\* ------------------------------------------------------------------------
\* UDL analysis: _analyze_simply_supported_udl
\* ------------------------------------------------------------------------
\* end_ra = min(L_udl, L); res.Ra_max = w * area_ra
udl_Ra_max(L, w, L_udl) ==
    Mul(w, _calculate_ild_area("_get_ra_ild_ordinate", Zero, PyMin(L_udl, L), L))

\* start_rb = max(0, L - L_udl); res.Rb_max = w * area_rb
udl_Rb_max(L, w, L_udl) ==
    Mul(w, _calculate_ild_area("_get_rb_ild_ordinate", PyMax(Zero, Sub(L, L_udl)), L, L))

udl_max_pos_SF_mid(L, w, L_udl) ==
    LET mid == Div(L, Two)
        start_sf_pos == mid
        end_sf_pos == PyMin(L, Add(mid, L_udl))
        area_sf_pos == IF Lt(start_sf_pos, end_sf_pos)
                       THEN _calculate_ild_area("_get_sf_mid_ild_ordinate",
                                                start_sf_pos, end_sf_pos, L)
                       ELSE Zero
    IN  Mul(w, area_sf_pos)

udl_max_neg_SF_mid(L, w, L_udl) ==
    LET mid == Div(L, Two)
        end_sf_neg == mid
        start_sf_neg == PyMax(Zero, Sub(mid, L_udl))
        area_sf_neg == IF Lt(start_sf_neg, end_sf_neg)
                       THEN _calculate_ild_area("_get_sf_mid_ild_ordinate",
                                                start_sf_neg, end_sf_neg, L)
                       ELSE Zero
    IN  Mul(w, area_sf_neg)

\* variant: the centred patch reaches L_udl (not L_udl/2) to either side
udl_max_pos_M_mid_wide(L, w, L_udl) ==
    LET mid == Div(L, Two)
        start_m_mid == IF Ge(L_udl, L) THEN Zero ELSE PyMax(Zero, Sub(mid, L_udl))
        end_m_mid == IF Ge(L_udl, L) THEN L ELSE PyMin(L, Add(mid, L_udl))
        area_m_mid == IF Lt(start_m_mid, end_m_mid)
                      THEN _calculate_ild_area("_get_bm_mid_ild_ordinate",
                                               start_m_mid, end_m_mid, L)
                      ELSE Zero
    IN  Mul(w, area_m_mid)

udl_max_pos_M_mid(L, w, L_udl) ==
    LET mid == Div(L, Two)
        start_m_mid == IF Ge(L_udl, L) THEN Zero
                       ELSE PyMax(Zero, Sub(mid, Div(L_udl, Two)))
        end_m_mid == IF Ge(L_udl, L) THEN L
                     ELSE PyMin(L, Add(mid, Div(L_udl, Two)))
        area_m_mid == IF Lt(start_m_mid, end_m_mid)
                      THEN _calculate_ild_area("_get_bm_mid_ild_ordinate",
                                               start_m_mid, end_m_mid, L)
                      ELSE Zero
    IN  Mul(w, area_m_mid)

\* variant: the full-span moment without the square, w * L / 8.0
udl_BM_max_linear(L, w, L_udl) ==
    IF Ge(L_udl, L) THEN Div(Mul(w, L), Eight)
    ELSE Mul(Div(Mul(w, L_udl), Eight), Sub(Mul(Two, L), L_udl))

\* variant: the short-patch factor (2L - L_udl) written as (L - 2 L_udl)
udl_BM_max_swapped(L, w, L_udl) ==
    IF Ge(L_udl, L) THEN Div(Mul(w, Mul(L, L)), Eight)
    ELSE Mul(Div(Mul(w, L_udl), Eight), Sub(L, Mul(Two, L_udl)))

\* if L_udl >= L: w * L**2 / 8.0  else: (w * L_udl / 8.0) * (2 * L - L_udl)
udl_BM_max(L, w, L_udl) ==
    IF Ge(L_udl, L) THEN Div(Mul(w, Mul(L, L)), Eight)
    ELSE Mul(Div(Mul(w, L_udl), Eight), Sub(Mul(Two, L), L_udl))

\* res.z_BM_max = L / 2.0 (both branches)
udl_z_BM_max(L, w, L_udl) == Div(L, Two)

\* if w == 0: return res
udl_no_load(w) == Eq(w, Zero)

_analyze_simply_supported_udl(beam, loads) ==
    LET L == beam.length
        w == loads.w
        L_udl == loads.length
        res == [AnalysisResults(UDL, NoError) EXCEPT !.BM_01 = None, !.SF01 = None]
        Ra == udl_Ra_max(L, w, L_udl)
        Rb == udl_Rb_max(L, w, L_udl)
    IN  IF udl_no_load(w) THEN res
        ELSE [res EXCEPT !.Ra_max = Ra, !.Rb_max = Rb,
                         !.SFmax = SFmax_of(Ra, Rb),
                         !.y_SF_max = y_SF_max_of(Ra, Rb, L),
                         !.max_pos_SF_mid = udl_max_pos_SF_mid(L, w, L_udl),
                         !.max_neg_SF_mid = udl_max_neg_SF_mid(L, w, L_udl),
                         !.max_pos_M_mid = udl_max_pos_M_mid(L, w, L_udl),
                         !.BM_max = udl_BM_max(L, w, L_udl),
                         !.z_BM_max = udl_z_BM_max(L, w, L_udl),
                         !.BM_01 = None, !.SF01 = None]

\* ------------------------------------------------------------------------
\* analyze_beam
\* ------------------------------------------------------------------------
\* variant: the load type is tested before the beam type
analyze_beam_load_first(beam, load_system) ==
    LET load_type == get_load_type(load_system)
    IN  IF load_type \notin {POINT_TWO, UDL}
        THEN AnalysisResults("unknown", "Unsupported load type '" \o load_type \o "'")
        ELSE IF beam.type # SIMPLY_SUPPORTED
        THEN AnalysisResults("unknown",
                 "Analysis for beam type '" \o beam.type \o "' not implemented.")
        ELSE IF load_type = POINT_TWO THEN _analyze_simply_supported_point(beam, load_system)
        ELSE _analyze_simply_supported_udl(beam, load_system)

analyze_beam(beam, load_system) ==
    LET load_type == get_load_type(load_system)
    IN  IF beam.type = SIMPLY_SUPPORTED
        THEN IF load_type = POINT_TWO THEN _analyze_simply_supported_point(beam, load_system)
             ELSE IF load_type = UDL THEN _analyze_simply_supported_udl(beam, load_system)
             ELSE AnalysisResults("unknown", "Unsupported load type '" \o load_type \o "'")
        ELSE AnalysisResults("unknown",
                 "Analysis for beam type '" \o beam.type \o "' not implemented.")

\* ------------------------------------------------------------------------
\* One analysis request: construct a Beam, construct a load system, analyze
\* ------------------------------------------------------------------------
VARIABLES
    pc,           \* "new", "beam", "loads", "done" or "raised"
    beam,         \* the Beam object, or NoObject
    load_system,  \* the load-system object, or NoObject
    res,          \* the AnalysisResults returned by analyze_beam, or NoObject
    exc,          \* the exception a constructor raised, or NoException
    call          \* the last constructor call and its arguments

vars == <<pc, beam, load_system, res, exc, call>>

\* float arguments tried: the integers lo..hi and not-a-number
Floats(lo, hi) == {Rat(i) : i \in lo..hi} \cup {NaN}

Lengths == Floats(-1, MaxL)

Loads == Floats(-1, MaxW)

Dists == Floats(-1, MaxX)

BeamTypes == {SIMPLY_SUPPORTED, "cantilever"}

OtherLoadTypes == {"triangular"}

Init ==
    /\ pc = "new"
    /\ beam = NoObject
    /\ load_system = NoObject
    /\ res = NoObject
    /\ exc = NoException
    /\ call = [cls |-> "none"]

\* Beam(length, beam_type)
BeamInit(length, beam_type) ==
    /\ pc = "new"
    /\ call' = [cls |-> "Beam", length |-> length, beam_type |-> beam_type]
    /\ exc' = Beam_raises(length)
    /\ IF Beam_raises(length) # NoException
       THEN pc' = "raised" /\ beam' = beam
       ELSE pc' = "beam" /\ beam' = Beam(length, beam_type)
    /\ UNCHANGED <<load_system, res>>

\* PointLoadSystem(w1, w2, x)
PointLoadSystemInit(w1, w2, x) ==
    /\ pc = "beam"
    /\ call' = [cls |-> "PointLoadSystem", w1 |-> w1, w2 |-> w2, x |-> x]
    /\ exc' = PointLoadSystem_raises(w1, w2, x)
    /\ IF PointLoadSystem_raises(w1, w2, x) # NoException
       THEN pc' = "raised" /\ load_system' = load_system
       ELSE pc' = "loads" /\ load_system' = PointLoadSystem(w1, w2, x)
    /\ UNCHANGED <<beam, res>>

\* UDLLoadSystem(w, length_udl)
UDLLoadSystemInit(w, length_udl) ==
    /\ pc = "beam"
    /\ call' = [cls |-> "UDLLoadSystem", w |-> w, length_udl |-> length_udl]
    /\ exc' = UDLLoadSystem_raises(w, length_udl)
    /\ IF UDLLoadSystem_raises(w, length_udl) # NoException
       THEN pc' = "raised" /\ load_system' = load_system
       ELSE pc' = "loads" /\ load_system' = UDLLoadSystem(w, length_udl)
    /\ UNCHANGED <<beam, res>>

\* a load system of another LoadSystemBase subclass
OtherLoadSystemInit(tag) ==
    /\ pc = "beam"
    /\ call' = [cls |-> "OtherLoadSystem", tag |-> tag]
    /\ exc' = NoException
    /\ pc' = "loads"
    /\ load_system' = OtherLoadSystem(tag)
    /\ UNCHANGED <<beam, res>>

\* results = analyze_beam(beam, loads)
AnalyzeBeam ==
    /\ pc = "loads"
    /\ res' = analyze_beam(beam, load_system)
    /\ pc' = "done"
    /\ UNCHANGED <<beam, load_system, exc, call>>

\* the request is over: its objects are dropped
Discard ==
    /\ pc \in {"done", "raised"}
    /\ pc' = "new"
    /\ beam' = NoObject
    /\ load_system' = NoObject
    /\ res' = NoObject
    /\ exc' = NoException
    /\ call' = [cls |-> "none"]

Next ==
    \/ \E length \in Lengths, beam_type \in BeamTypes : BeamInit(length, beam_type)
    \/ \E w1 \in Loads, w2 \in Loads, x \in Dists : PointLoadSystemInit(w1, w2, x)
    \/ \E w \in Loads, length_udl \in Dists : UDLLoadSystemInit(w, length_udl)
    \/ \E tag \in OtherLoadTypes : OtherLoadSystemInit(tag)
    \/ AnalyzeBeam
    \/ Discard

Spec == Init /\ [][Next]_vars

\* ------------------------------------------------------------------------
\* Vocabulary of the properties
\* ------------------------------------------------------------------------
Done == pc = "done"

IsPoint == load_system.cls = "PointLoadSystem"

IsUDL == load_system.cls = "UDLLoadSystem"

Supported == beam.type = SIMPLY_SUPPORTED /\ (IsPoint \/ IsUDL)

\* the arguments satisfy the documented ranges (a NaN argument does not)
ValidBeam == Gt(beam.length, Zero)

ValidPoint ==
    IsPoint /\ Ge(load_system.w1, Zero) /\ Ge(load_system.w2, Zero) /\ Ge(load_system.x, Zero)

ValidUDL == IsUDL /\ Ge(load_system.w, Zero) /\ Gt(load_system.length, Zero)

\* a finished analysis of a simply supported beam under two point loads
PointDone == Done /\ beam.type = SIMPLY_SUPPORTED /\ ValidBeam /\ ValidPoint

\* a finished analysis of a simply supported beam under a UDL
UDLDone == Done /\ beam.type = SIMPLY_SUPPORTED /\ ValidBeam /\ ValidUDL

\* the larger of two numbers
RMax(a, b) == IF Lt(a, b) THEN b ELSE a

\* the fields of AnalysisResults that hold a float or None
NumericFields ==
    {"Ra_max", "Rb_max", "SFmax", "y_SF_max", "BM_01", "SF01",
     "max_pos_M_mid", "max_pos_SF_mid", "max_neg_SF_mid", "BM_max", "z_BM_max"}

\* ------------------------------------------------------------------------
\* C1: a point-load result has max_pos_M_mid, max_pos_SF_mid and
\* max_neg_SF_mid all None and a UDL result has BM_01 and SF_01 None, the
\* zero-load inputs included; an inapplicable field is never a number.
\* ------------------------------------------------------------------------
C1_InapplicableFieldsAbsent ==
    /\ PointDone => /\ res.max_pos_M_mid = None
                    /\ res.max_pos_SF_mid = None
                    /\ res.max_neg_SF_mid = None
    /\ UDLDone => /\ res.BM_01 = None
                  /\ res.SF01 = None

\* ------------------------------------------------------------------------
\* C2: for every valid input of either load type SF_max is the larger of
\* Ra_max and Rb_max, y_SF_max is 0 when Ra_max >= Rb_max and L otherwise,
\* and both reactions are non-negative.
\* ------------------------------------------------------------------------
C2_ShearEnvelope ==
    (PointDone \/ UDLDone) =>
        /\ Ge(res.Ra_max, Zero)
        /\ Ge(res.Rb_max, Zero)
        /\ res.SFmax \in {res.Ra_max, res.Rb_max}
        /\ Ge(res.SFmax, res.Ra_max)
        /\ Ge(res.SFmax, res.Rb_max)
        /\ res.y_SF_max \in {Zero, beam.length}
        /\ (res.y_SF_max = Zero) <=> Ge(res.Ra_max, res.Rb_max)

\* a point-load result whose largest shear is at support B, and a tie
C2_Witness ==
    /\ PointDone
    /\ Gt(res.Rb_max, res.Ra_max)
    /\ res.y_SF_max = beam.length
    /\ res.SFmax = res.Rb_max

\* ------------------------------------------------------------------------
\* C3: when the total load is zero (W1 = W2 = 0 for any x >= 0, or w = 0 for
\* any L_udl > 0) every numeric field of the result is exactly 0, load_type
\* is the tag of the load system and error is absent.
\* ------------------------------------------------------------------------
ZeroPoint == PointDone /\ load_system.w1 = Zero /\ load_system.w2 = Zero

ZeroUDL == UDLDone /\ load_system.w = Zero

C3_ZeroLoad ==
    (ZeroPoint \/ ZeroUDL) =>
        /\ \A f \in NumericFields : res[f] # None => res[f] = Zero
        /\ \A f \in {"Ra_max", "Rb_max", "SFmax", "y_SF_max", "BM_max", "z_BM_max"} :
               res[f] = Zero
        /\ ZeroPoint => res.BM_01 = Zero /\ res.SF01 = Zero
        /\ ZeroUDL => /\ res.max_pos_M_mid = Zero
                      /\ res.max_pos_SF_mid = Zero
                      /\ res.max_neg_SF_mid = Zero
        /\ res.load_type = get_load_type(load_system)
        /\ res.error = NoError

\* two zero point loads a positive distance apart have been analysed
C3_Witness == ZeroPoint /\ Gt(load_system.x, Zero) /\ res.z_BM_max = Zero

\* ------------------------------------------------------------------------
\* C4: for every valid input with total load > 0 the result has BM_max >= 0
\* and 0 <= z_BM_max <= L.
\* ------------------------------------------------------------------------
LoadedPoint == PointDone /\ Gt(W_total(load_system), Zero)

LoadedUDL == UDLDone /\ Gt(load_system.w, Zero)

C4_BMmaxRange ==
    (LoadedPoint \/ LoadedUDL) =>
        /\ Ge(res.BM_max, Zero)
        /\ Le(Zero, res.z_BM_max)
        /\ Le(res.z_BM_max, beam.length)

\* a UDL shorter than the span but longer than half of it has been analysed
C4_Witness ==
    /\ LoadedUDL
    /\ Lt(load_system.length, beam.length)
    /\ Gt(Mul(Two, load_system.length), beam.length)
    /\ Gt(res.BM_max, Zero)

\* ------------------------------------------------------------------------
\* C5: construction fails with a validation error exactly when: Beam with
\* length <= 0; PointLoadSystem with w1 < 0, w2 < 0 or x < 0; UDLLoadSystem
\* with w < 0 or length_udl <= 0.  A failed construction yields no object,
\* so analyze_beam never runs on an invalid Beam or load system.
\* ------------------------------------------------------------------------
Raised == exc # NoException

C5_ValidationExact ==
    /\ Raised <=> pc = "raised"
    /\ call.cls = "Beam" =>
           /\ Raised <=> Le(call.length, Zero)
           /\ Raised => beam.cls = "NoneType"
           /\ ~Raised => beam = Beam(call.length, call.beam_type)
    /\ call.cls = "PointLoadSystem" =>
           /\ Raised <=> (Lt(call.w1, Zero) \/ Lt(call.w2, Zero) \/ Lt(call.x, Zero))
           /\ Raised => load_system.cls = "NoneType"
           /\ ~Raised => load_system = PointLoadSystem(call.w1, call.w2, call.x)
    /\ call.cls = "UDLLoadSystem" =>
           /\ Raised <=> (Lt(call.w, Zero) \/ Le(call.length_udl, Zero))
           /\ Raised => load_system.cls = "NoneType"
           /\ ~Raised => load_system = UDLLoadSystem(call.w, call.length_udl)
    /\ Raised => res.cls = "NoneType"
    /\ Done =>
           /\ ~Le(beam.length, Zero)
           /\ IsPoint => ~(Lt(load_system.w1, Zero) \/ Lt(load_system.w2, Zero)
                             \/ Lt(load_system.x, Zero))
           /\ IsUDL => ~(Lt(load_system.w, Zero) \/ Le(load_system.length, Zero))

\* UDLLoadSystem(w, 0) with w >= 0 has raised and left no load system
C5_Witness ==
    /\ pc = "raised"
    /\ call.cls = "UDLLoadSystem"
    /\ Ge(call.w, Zero)
    /\ call.length_udl = Zero
    /\ load_system.cls = "NoneType"
    /\ beam.cls = "Beam"

\* ------------------------------------------------------------------------
\* C6: analyze_beam returns a result whose error is set (and load_type is
\* 'unknown') if and only if the beam type is not 'simply_supported' or the
\* load type is neither 'point_two' nor 'udl'; the beam type is checked
\* first; for every supported combination error is absent and load_type is
\* the load system's tag.
\* ------------------------------------------------------------------------
BeamTypeError == "Analysis for beam type '" \o beam.type \o "' not implemented."

LoadTypeError == "Unsupported load type '" \o get_load_type(load_system) \o "'"

C6_UnsupportedCombination ==
    Done =>
        /\ (res.error # NoError) <=>
               (beam.type # SIMPLY_SUPPORTED
                    \/ get_load_type(load_system) \notin {"point_two", "udl"})
        /\ res.error # NoError => res.load_type = "unknown"
        /\ beam.type # SIMPLY_SUPPORTED => res.error = BeamTypeError
        /\ (beam.type = SIMPLY_SUPPORTED /\ res.error # NoError) => res.error = LoadTypeError
        /\ Supported => res.error = NoError /\ res.load_type = get_load_type(load_system)

\* an unsupported beam type with an unsupported load type: the beam-type error
C6_Witness ==
    /\ Done
    /\ beam.type = "cantilever"
    /\ load_system.cls = "OtherLoadSystem"
    /\ res.error = "Analysis for beam type 'cantilever' not implemented."
    /\ res.load_type = "unknown"

\* ------------------------------------------------------------------------
\* C7: every numeric field is checked for not-a-number after the
\* calculation; if any field is not-a-number the result carries only
\* error = "Calculation resulted in NaN for <field>." and no numbers.  So a
\* returned result never holds a NaN beside an absent error.
\* ------------------------------------------------------------------------
HasNaN(r) == \E f \in NumericFields : IsNaN(r[f])

C7_NaNCollapsesToError ==
    Done =>
        /\ ~(HasNaN(res) /\ res.error = NoError)
        /\ (HasNaN(res) \/ \E f \in NumericFields :
                res.error = "Calculation resulted in NaN for " \o f \o ".")
               => \A f \in NumericFields : ~IsNum(res[f])

\* ------------------------------------------------------------------------
\* C8: for every valid two-point load with W1 + W2 > 0,
\* Ra_max = W1 + W2*max(0, L-x)/L and Rb_max = (W1*max(0, L-x) + W2*L)/L;
\* for x >= L they reduce to Ra_max = W1 and Rb_max = W2, and for x = 0 both
\* equal W1 + W2.
\* ------------------------------------------------------------------------
\* max(0, L - x) of the analysed request
OnSpan == RMax(Zero, Sub(beam.length, load_system.x))

C8_PointReactions ==
    LoadedPoint =>
        LET L == beam.length
            W1 == load_system.w1
            W2 == load_system.w2
            x == load_system.x
        IN  /\ Mul(res.Ra_max, L) = Add(Mul(W1, L), Mul(W2, OnSpan))
            /\ Mul(res.Rb_max, L) = Add(Mul(W1, OnSpan), Mul(W2, L))
            /\ Ge(x, L) => res.Ra_max = W1 /\ res.Rb_max = W2
            /\ x = Zero => res.Ra_max = Add(W1, W2) /\ res.Rb_max = Add(W1, W2)

\* two positive loads further apart than the span: Ra_max = W1, Rb_max = W2
C8_Witness ==
    /\ LoadedPoint
    /\ Gt(load_system.x, beam.length)
    /\ Gt(load_system.w1, load_system.w2)
    /\ Gt(load_system.w2, Zero)
    /\ res.Ra_max = load_system.w1
    /\ res.Rb_max = load_system.w2

\* ------------------------------------------------------------------------
\* C9: for a two-point load with W1 + W2 > 0, BM_max is chosen by the first
\* matching case in this order: W1 = 0 gives W2*L/4; else W2 = 0 gives
\* W1*L/4; else x = 0 gives (W1+W2)*L/4; else x >= L gives max(W1,W2)*L/4;
\* in each of these four cases z_BM_max = L/2.
\* ------------------------------------------------------------------------
C9_BMmaxSpecialCases ==
    LoadedPoint =>
        LET L == beam.length
            W1 == load_system.w1
            W2 == load_system.w2
            x == load_system.x
            special == W1 = Zero \/ W2 = Zero \/ x = Zero \/ Ge(x, L)
            governing == IF W1 = Zero THEN W2
                         ELSE IF W2 = Zero THEN W1
                         ELSE IF x = Zero THEN Add(W1, W2)
                         ELSE RMax(W1, W2)
        IN  special => /\ Mul(res.BM_max, Four) = Mul(governing, L)
                       /\ Mul(res.z_BM_max, Two) = L

\* two different positive loads at least a span apart: max(W1, W2)*L/4 at L/2
C9_Witness ==
    /\ LoadedPoint
    /\ Gt(load_system.w1, Zero)
    /\ Gt(load_system.w2, load_system.w1)
    /\ Ge(load_system.x, beam.length)
    /\ Mul(res.BM_max, Four) = Mul(load_system.w2, beam.length)

\* ------------------------------------------------------------------------
\* C10: in the general point-load case (W1 > 0, W2 > 0, 0 < x < L), with
\* R = W1+W2 and a = W2*x/R, BM_max is the larger of two candidate moments
\* and z_BM_max is that candidate's location: (i) W1 at z1 = L/2 - a/2 with
\* moment Ra*z1, and (ii) W2 at z2 = L/2 + (x-a)/2 with moment Ra*z2 - W1*x
\* if W1 is on the span (z2 - x >= 0) and Ra*z2 otherwise, where Ra is the
\* reaction at A for that placement (ties go to candidate (i)).
\* ------------------------------------------------------------------------
GeneralPoint ==
    /\ PointDone
    /\ Gt(load_system.w1, Zero)
    /\ Gt(load_system.w2, Zero)
    /\ Gt(load_system.x, Zero)
    /\ Lt(load_system.x, beam.length)

\* the share of a load W at position p of a span L that support A carries:
\* W*(L - p)/L for a load on the span, nothing for a load off it
StaticsShare(W, p, L) == IF Le(Zero, p) /\ Le(p, L) THEN Div(Mul(W, Sub(L, p)), L) ELSE Zero

\* the reaction at A with W1 at p1 and W2 at p2
StaticsRa(L, W1, W2, p1, p2) == Add(StaticsShare(W1, p1, L), StaticsShare(W2, p2, L))

C10_GeneralCaseCandidates ==
    GeneralPoint =>
        LET L == beam.length
            W1 == load_system.w1
            W2 == load_system.w2
            x == load_system.x
            a == Div(Mul(W2, x), Add(W1, W2))
            z1 == Sub(Div(L, Two), Div(a, Two))
            z2 == Add(Div(L, Two), Div(Sub(x, a), Two))
            Mi == Mul(StaticsRa(L, W1, W2, z1, Add(z1, x)), z1)
            Ra_ii == StaticsRa(L, W1, W2, Sub(z2, x), z2)
            Mii == IF Ge(Sub(z2, x), Zero) THEN Sub(Mul(Ra_ii, z2), Mul(W1, x))
                   ELSE Mul(Ra_ii, z2)
        IN  IF Ge(Mi, Mii)
            THEN res.BM_max = Mi /\ res.z_BM_max = z1
            ELSE res.BM_max = Mii /\ res.z_BM_max = z2

\* the same selection with the reaction expression of the code in place of
\* the statics reaction (not the claim: recorded for the divergence)
C10_SelectionOnCodeReaction ==
    GeneralPoint =>
        LET L == beam.length
            W1 == load_system.w1
            W2 == load_system.w2
            x == load_system.x
            a == Div(Mul(W2, x), Add(W1, W2))
            z1 == Sub(Div(L, Two), Div(a, Two))
            z2 == Add(Div(L, Two), Div(Sub(x, a), Two))
            Mi == Mul(Ra_expr(L, W1, W2, z1, Add(z1, x)), z1)
            Ra_ii == Ra_expr(L, W1, W2, Sub(z2, x), z2)
            Mii == IF Ge(Sub(z2, x), Zero) THEN Sub(Mul(Ra_ii, z2), Mul(W1, x))
                   ELSE Mul(Ra_ii, z2)
        IN  IF Ge(Mi, Mii)
            THEN res.BM_max = Mi /\ res.z_BM_max = z1
            ELSE res.BM_max = Mii /\ res.z_BM_max = z2

\* ------------------------------------------------------------------------
\* C11: in the general point-load case (W1 > 0, W2 > 0, 0 < x < L) swapping
\* the two load magnitudes leaves BM_max unchanged; only z_BM_max differs
\* (for different loads it is mirrored to L - z).
\* ------------------------------------------------------------------------
\* the result of the same request with the two magnitudes exchanged
Swapped ==
    analyze_beam(beam, PointLoadSystem(load_system.w2, load_system.w1, load_system.x))

C11_SwapLeavesBMmax ==
    GeneralPoint =>
        /\ Swapped.BM_max = res.BM_max
        /\ load_system.w1 # load_system.w2 =>
               Swapped.z_BM_max = Sub(beam.length, res.z_BM_max)

\* ------------------------------------------------------------------------
\* Exact areas under the influence lines (the reference the areas of the
\* program are compared with)
\* ------------------------------------------------------------------------
\* the smaller of two numbers
RMin(a, b) == IF Lt(b, a) THEN b ELSE a

One == Rat(1)

\* the integral of alpha + beta*p for p from s to e, 0 when s >= e
IntLin(alpha, beta, s, e) ==
    IF Lt(s, e)
    THEN Add(Mul(alpha, Sub(e, s)), Mul(Mul(beta, Half), Sub(Mul(e, e), Mul(s, s))))
    ELSE Zero

\* the integral over [s, e], 0 <= s <= e <= L, of the influence line named f:
\* reaction A (L-p)/L, reaction B p/L, midspan shear -p/L left of L/2 and
\* (L-p)/L right of it, midspan moment p/2 left of L/2 and (L-p)/2 right of it
ExactIntegral(f, s, e, L) ==
    LET m == Div(L, Two)
        slope == Div(One, L)
    IN  CASE f = "_get_ra_ild_ordinate" -> IntLin(One, Neg(slope), s, e)
          [] f = "_get_rb_ild_ordinate" -> IntLin(Zero, slope, s, e)
          [] f = "_get_sf_mid_ild_ordinate" ->
                 Add(IntLin(Zero, Neg(slope), s, RMin(e, m)),
                     IntLin(One, Neg(slope), RMax(s, m), e))
          [] f = "_get_bm_mid_ild_ordinate" ->
                 Add(IntLin(Zero, Half, s, RMin(e, m)),
                     IntLin(m, Neg(Half), RMax(s, m), e))

\* ------------------------------------------------------------------------
\* C12: for every valid UDL with w > 0, Ra_max and Rb_max are w times the
\* area of the reaction-A ordinate over [0, min(L_udl, L)] and of the
\* reaction-B ordinate over [max(0, L-L_udl), L]; with d = min(L_udl, L)
\* both equal w*d*(2L-d)/(2L), so Ra_max = Rb_max (w*L/2 when L_udl >= L).
\* ------------------------------------------------------------------------
C12_UDLReactions ==
    LoadedUDL =>
        LET L == beam.length
            w == load_system.w
            L_udl == load_system.length
            d == RMin(L_udl, L)
        IN  /\ res.Ra_max = Mul(w, ExactIntegral("_get_ra_ild_ordinate", Zero, d, L))
            /\ res.Rb_max = Mul(w, ExactIntegral("_get_rb_ild_ordinate",
                                                RMax(Zero, Sub(L, L_udl)), L, L))
            /\ Mul(res.Ra_max, Mul(Two, L)) = Mul(Mul(w, d), Sub(Mul(Two, L), d))
            /\ res.Rb_max = res.Ra_max
            /\ Ge(L_udl, L) => Mul(res.Ra_max, Two) = Mul(w, L)

\* a UDL shorter than the span has been analysed: equal reactions below w*L/2
C12_Witness ==
    /\ LoadedUDL
    /\ Lt(load_system.length, beam.length)
    /\ res.Ra_max = res.Rb_max
    /\ Lt(Mul(res.Rb_max, Two), Mul(load_system.w, beam.length))

\* ------------------------------------------------------------------------
\* C13: for every valid UDL with w > 0, BM_max = w*L^2/8 when L_udl >= L and
\* BM_max = (w*L_udl/8)*(2L - L_udl) when L_udl < L, and z_BM_max = L/2 in
\* both cases; the two formulas agree at L_udl = L.
\* ------------------------------------------------------------------------
C13_UDLBMmax ==
    LoadedUDL =>
        LET L == beam.length
            w == load_system.w
            L_udl == load_system.length
            full == Mul(w, Mul(L, L))
            short == Mul(Mul(w, L_udl), Sub(Mul(Two, L), L_udl))
        IN  /\ Ge(L_udl, L) => Mul(res.BM_max, Eight) = full
            /\ Lt(L_udl, L) => Mul(res.BM_max, Eight) = short
            /\ L_udl = L => full = short
            /\ Mul(res.z_BM_max, Two) = L

\* a UDL longer than a span other than 1 has been analysed
C13_Witness ==
    /\ LoadedUDL
    /\ Gt(load_system.length, beam.length)
    /\ Gt(beam.length, One)
    /\ Mul(res.BM_max, Eight) = Mul(load_system.w, Mul(beam.length, beam.length))

\* ------------------------------------------------------------------------
\* C15: for every valid two-point load with W1 + W2 > 0: BM_01 = 0 when
\* x >= L and BM_01 = (W2*x/L)*(L-x) otherwise; SF_01 is the reaction at A
\* with W1 at L/2 and W2 at L/2 + x, a load beyond the span contributing 0:
\* SF_01 = (W1*(L/2) + W2*max(0, L/2 - x))/L.
\* ------------------------------------------------------------------------
C15_PointReferenceValues ==
    LoadedPoint =>
        LET L == beam.length
            W1 == load_system.w1
            W2 == load_system.w2
            x == load_system.x
            m == Div(L, Two)
        IN  /\ Ge(x, L) => res.BM_01 = Zero
            /\ Lt(x, L) => Mul(res.BM_01, L) = Mul(Mul(W2, x), Sub(L, x))
            /\ res.SF01 = StaticsRa(L, W1, W2, m, Add(m, x))
            /\ Mul(res.SF01, L) = Add(Mul(W1, m), Mul(W2, RMax(Zero, Sub(m, x))))

\* W2 stands beyond the span both with W1 at A and with W1 at midspan
C15_Witness ==
    /\ LoadedPoint
    /\ Gt(load_system.x, beam.length)
    /\ Gt(load_system.w2, Zero)
    /\ Gt(load_system.w1, Zero)
    /\ res.BM_01 = Zero
    /\ Mul(res.SF01, Two) = load_system.w1

\* ------------------------------------------------------------------------
\* C20: for every valid UDL with w > 0 the absolute maximum moment of the
\* closed formula equals the ILD-integrated midspan moment:
\* BM_max = max_pos_M_mid, where max_pos_M_mid is w times the area of the
\* midspan-moment ordinate over [0, L] when L_udl >= L and over
\* [L/2 - L_udl/2, L/2 + L_udl/2] otherwise.
\* ------------------------------------------------------------------------
C20_BMmaxIsMidspanMoment ==
    LoadedUDL =>
        LET L == beam.length
            w == load_system.w
            L_udl == load_system.length
            m == Div(L, Two)
            h == Div(L_udl, Two)
            area == IF Ge(L_udl, L)
                    THEN ExactIntegral("_get_bm_mid_ild_ordinate", Zero, L, L)
                    ELSE ExactIntegral("_get_bm_mid_ild_ordinate",
                                       Sub(m, h), Add(m, h), L)
        IN  /\ res.max_pos_M_mid = Mul(w, area)
            /\ res.BM_max = res.max_pos_M_mid

\* a UDL shorter than the span: both moments are the centred-patch value
C20_Witness ==
    /\ LoadedUDL
    /\ Lt(load_system.length, beam.length)
    /\ res.BM_max = res.max_pos_M_mid
    /\ Gt(res.max_pos_M_mid, Zero)

\* ------------------------------------------------------------------------
\* C14: for every valid UDL with w > 0, max_pos_SF_mid is w times the area
\* of the midspan-shear ordinate over [L/2, min(L, L/2 + L_udl)] and
\* max_neg_SF_mid is w times its area over [max(0, L/2 - L_udl), L/2], with
\* the one-sided ordinate at L/2 (+1/2 on the right, -1/2 on the left); with
\* d = min(L_udl, L/2): max_pos_SF_mid = w*d*(L-d)/(2L) >= 0 and
\* max_neg_SF_mid = -max_pos_SF_mid.
\* ------------------------------------------------------------------------
C14_UDLMidspanShear ==
    LoadedUDL =>
        LET L == beam.length
            w == load_system.w
            L_udl == load_system.length
            m == Div(L, Two)
            d == RMin(L_udl, m)
            f == "_get_sf_mid_ild_ordinate"
        IN  /\ res.max_pos_SF_mid = Mul(w, ExactIntegral(f, m, RMin(L, Add(m, L_udl)), L))
            /\ res.max_neg_SF_mid = Mul(w, ExactIntegral(f, RMax(Zero, Sub(m, L_udl)), m, L))
            /\ Mul(res.max_pos_SF_mid, Mul(Two, L)) = Mul(Mul(w, d), Sub(L, d))
            /\ Ge(res.max_pos_SF_mid, Zero)
            /\ res.max_neg_SF_mid = Neg(res.max_pos_SF_mid)

\* what the function returns instead: the ordinate is sampled Eps away from
\* midspan, so the shear is w*d*(L - d - Eps)/(2L) (not the claim: recorded
\* for the divergence)
C14_ShearWithOffset ==
    LoadedUDL =>
        LET L == beam.length
            w == load_system.w
            d == RMin(load_system.length, Div(L, Two))
        IN  /\ Mul(res.max_pos_SF_mid, Mul(Two, L)) = Mul(Mul(w, d), Sub(Sub(L, d), Eps))
            /\ res.max_neg_SF_mid = Neg(res.max_pos_SF_mid)

\* ------------------------------------------------------------------------
\* C16: in the general point-load case (W1 > 0, W2 > 0, 0 < x < L) the
\* reaction at A used for each candidate placement is the statics reaction
\* with any load off the span (position < 0 or > L) contributing 0; hence it
\* never exceeds W1 + W2, also when candidate (ii) puts W1 at z2 - x < 0.
\* ------------------------------------------------------------------------
C16_CandidateReactionIsStatics ==
    GeneralPoint =>
        LET L == beam.length
            W1 == load_system.w1
            W2 == load_system.w2
            x == load_system.x
            z1 == cand_z1(L, W1, W2, x)
            z2 == cand_z2(L, W1, W2, x)
            Ra1 == Ra_expr(L, W1, W2, z1, Add(z1, x))
            Ra2 == Ra_expr(L, W1, W2, Sub(z2, x), z2)
        IN  /\ (Le(Zero, z1) /\ Le(z1, L)) =>
                   /\ Ra1 = StaticsRa(L, W1, W2, z1, Add(z1, x))
                   /\ Le(Ra1, Add(W1, W2))
            /\ (Le(Zero, z2) /\ Le(z2, L)) =>
                   /\ Ra2 = StaticsRa(L, W1, W2, Sub(z2, x), z2)
                   /\ Le(Ra2, Add(W1, W2))

\* ------------------------------------------------------------------------
\* C17: for every valid two-point load the reported BM_max never exceeds
\* (W1 + W2)*L/4, the largest midspan moment the whole load could produce
\* if concentrated at one point of the span.
\* ------------------------------------------------------------------------
C17_BMmaxUpperBound ==
    PointDone =>
        Le(Mul(res.BM_max, Four),
           Mul(Add(load_system.w1, load_system.w2), beam.length))

\* ------------------------------------------------------------------------
\* C18: for every valid two-point load with W1 + W2 > 0 the reported
\* envelope values are at least what the heavier load alone produces when
\* the other load is off the span: BM_max >= max(W1, W2)*L/4,
\* Ra_max >= max(W1, W2) and Rb_max >= max(W1, W2).
\* ------------------------------------------------------------------------
C18_HeavierLoadAlone ==
    LoadedPoint =>
        LET heavier == RMax(load_system.w1, load_system.w2)
        IN  /\ Ge(Mul(res.BM_max, Four), Mul(heavier, beam.length))
            /\ Ge(res.Ra_max, heavier)
            /\ Ge(res.Rb_max, heavier)

\* the three parts one by one (not the claim: recorded for the divergence)
C18_BMmaxPart ==
    LoadedPoint =>
        Ge(Mul(res.BM_max, Four),
           Mul(RMax(load_system.w1, load_system.w2), beam.length))

C18_RaPart == LoadedPoint => Ge(res.Ra_max, RMax(load_system.w1, load_system.w2))

C18_RbPart == LoadedPoint => Ge(res.Rb_max, RMax(load_system.w1, load_system.w2))

\* ------------------------------------------------------------------------
\* Direct calls of _calculate_ild_area
\* ------------------------------------------------------------------------
IldFunctions ==
    {"_get_ra_ild_ordinate", "_get_rb_ild_ordinate",
     "_get_sf_mid_ild_ordinate", "_get_bm_mid_ild_ordinate"}

\* interval ends tried: the multiples of 1/2 from -1 to MaxX
Positions == {Num(i, 2) : i \in -2..(2 * MaxX)}

\* span lengths tried, L <= 0 among them
AreaLengths == {Rat(i) : i \in -1..MaxL}

\* area = _calculate_ild_area(ild_ordinate_func, start, end, L)
CalculateIldArea(f, start, end, L) ==
    /\ pc = "new"
    /\ call' = [cls |-> "_calculate_ild_area", f |-> f,
                start |-> start, end |-> end, L |-> L]
    /\ res' = [cls |-> "float", value |-> _calculate_ild_area(f, start, end, L)]
    /\ pc' = "area"
    /\ UNCHANGED <<beam, load_system, exc>>

\* the caller has used the area
ReturnArea ==
    /\ pc = "area"
    /\ pc' = "new"
    /\ res' = NoObject
    /\ call' = [cls |-> "none"]
    /\ UNCHANGED <<beam, load_system, exc>>

NextIld ==
    \/ \E f \in IldFunctions, start \in Positions, end \in Positions, L \in AreaLengths :
           CalculateIldArea(f, start, end, L)
    \/ ReturnArea

SpecIld == Init /\ [][NextIld]_vars

\* ------------------------------------------------------------------------
\* C19: _calculate_ild_area returns 0 when start >= end or L <= 0 (also
\* after clipping [start, end] to [0, L]); otherwise, for the midspan-shear
\* and midspan-moment ordinates it never spans L/2 with a single trapezoid,
\* so for every start <= b <= end inside [0, L] the area over [start, end]
\* equals the area over [start, b] plus the area over [b, end], and the
\* result equals the exact integral of the piecewise-linear ordinate over
\* the clipped interval.
\* ------------------------------------------------------------------------
AreaDone == pc = "area"

\* the call is one of the degenerate cases
AreaDegenerate ==
    \/ Ge(call.start, call.end)
    \/ Le(call.L, Zero)
    \/ Ge(RMax(Zero, call.start), RMin(call.L, call.end))

SplitFunctions == {"_get_sf_mid_ild_ordinate", "_get_bm_mid_ild_ordinate"}

C19_ZeroCases == (AreaDone /\ AreaDegenerate) => res.value = Zero

C19_Additive ==
    (AreaDone /\ ~AreaDegenerate /\ call.f \in SplitFunctions) =>
        \A b \in Positions :
            (Le(call.start, b) /\ Le(b, call.end) /\ Le(Zero, b) /\ Le(b, call.L)) =>
                res.value = Add(_calculate_ild_area(call.f, call.start, b, call.L),
                                _calculate_ild_area(call.f, b, call.end, call.L))

C19_Exact ==
    (AreaDone /\ ~AreaDegenerate) =>
        res.value = ExactIntegral(call.f, RMax(Zero, call.start),
                                  RMin(call.L, call.end), call.L)

C19_IldAreaExact == C19_ZeroCases /\ C19_Additive /\ C19_Exact

\* the exact integral is returned for the three ordinates other than the
\* midspan shear (not the claim: recorded for the divergence)
C19_ExactButShear ==
    (AreaDone /\ ~AreaDegenerate /\ call.f # "_get_sf_mid_ild_ordinate") =>
        res.value = ExactIntegral(call.f, RMax(Zero, call.start),
                                  RMin(call.L, call.end), call.L)

\* the midspan-shear area differs from the exact integral by
\* Eps*(right - left)/(2L), right and left being the lengths of the clipped
\* interval to either side of midspan (not the claim)
C19_ShearOffset ==
    (AreaDone /\ ~AreaDegenerate /\ call.f = "_get_sf_mid_ild_ordinate") =>
        LET s == RMax(Zero, call.start)
            e == RMin(call.L, call.end)
            m == Div(call.L, Two)
            left == RMax(Zero, Sub(RMin(e, m), s))
            right == RMax(Zero, Sub(e, RMax(s, m)))
        IN  Sub(ExactIntegral(call.f, s, e, call.L), res.value)
                = Div(Mul(Eps, Sub(right, left)), Mul(Two, call.L))

\* ------------------------------------------------------------------------
\* The window: BeamAnalysisApp
\* ------------------------------------------------------------------------
\* a text is a sequence of characters
Digits == <<"0", "1", "2", "3", "4", "5", "6", "7", "8", "9">>

IsDigit(c) == \E i \in 1..10 : Digits[i] = c

DigitValue(c) == (CHOOSE i \in 1..10 : Digits[i] = c) - 1

RECURSIVE Pow10(_)
Pow10(k) == IF k = 0 THEN 1 ELSE 10 * Pow10(k - 1)

\* str.strip(): leading and trailing blanks removed
RECURSIVE lstrip(_)
lstrip(t) == IF t # <<>> /\ Head(t) = " " THEN lstrip(Tail(t)) ELSE t

RECURSIVE rstrip(_)
rstrip(t) ==
    IF t # <<>> /\ t[Len(t)] = " " THEN rstrip(SubSeq(t, 1, Len(t) - 1)) ELSE t

\* the leading digits of t: <<their value, their number, the rest of t>>
RECURSIVE ReadDigits(_, _, _)
ReadDigits(t, value, count) ==
    IF t # <<>> /\ IsDigit(Head(t))
    THEN ReadDigits(Tail(t), 10 * value + DigitValue(Head(t)), count + 1)
    ELSE <<value, count, t>>

\* float(text) raised ValueError
NotAFloat == [k |-> "ValueError", n |-> 0, d |-> 0]

\* float(text) for texts of the forms [sign] digits [. digits] and [sign] nan,
\* blanks around them allowed; any other text raises ValueError (texts with an
\* exponent, an underscore or an infinity are not among the texts tried)
float_of(text) ==
    LET t == rstrip(lstrip(text))
        signed == t # <<>> /\ Head(t) \in {"+", "-"}
        negative == t # <<>> /\ Head(t) = "-"
        body == IF signed THEN Tail(t) ELSE t
        int == ReadDigits(body, 0, 0)
        dotted == int[3] # <<>> /\ Head(int[3]) = "."
        frac == IF dotted THEN ReadDigits(Tail(int[3]), 0, 0) ELSE <<0, 0, int[3]>>
        magnitude == Num(int[1] * Pow10(frac[2]) + frac[1], Pow10(frac[2]))
    IN  IF body = <<"n", "a", "n">> THEN NaN
        ELSE IF frac[3] = <<>> /\ int[2] + frac[2] > 0
             THEN (IF negative THEN Neg(magnitude) ELSE magnitude)
        ELSE NotAFloat

FloatError == "ValueError: could not convert string to float"

\* the texts of the load fields float() is applied to, in order, for the
\* checked radio button
load_fields(app) ==
    IF app.point_load_radio
    THEN <<app.w1_input_field, app.w2_input_field, app.x_input_field>>
    ELSE IF app.udl_radio THEN <<app.w_udl_input_field, app.len_udl_input_field>>
    ELSE <<>>

\* the exception raised inside the try block of get_input_and_create_objects,
\* or NoException
get_input_raises(app) ==
    LET L == float_of(app.length_input_field)
        texts == load_fields(app)
        v == [i \in 1..Len(texts) |-> float_of(texts[i])]
    IN  IF L = NotAFloat THEN FloatError
        ELSE IF Beam_raises(L) # NoException THEN Beam_raises(L)
        ELSE IF \E i \in 1..Len(texts) : v[i] = NotAFloat THEN FloatError
        ELSE IF app.point_load_radio THEN PointLoadSystem_raises(v[1], v[2], v[3])
        ELSE IF app.udl_radio THEN UDLLoadSystem_raises(v[1], v[2])
        ELSE "ValueError: No load type selected."

\* the load system built for the checked radio button
get_input_load_system(app) ==
    LET texts == load_fields(app)
        v == [i \in 1..Len(texts) |-> float_of(texts[i])]
    IN  IF app.point_load_radio THEN PointLoadSystem(v[1], v[2], v[3])
        ELSE UDLLoadSystem(v[1], v[2])

\* variant: the except handlers leave the objects as the try block left them
get_input_and_create_objects_keeps(app, old_beam, old_load_system) ==
    LET raised == get_input_raises(app)
        L == float_of(app.length_input_field)
        beam_made == L # NotAFloat /\ Beam_raises(L) = NoException
    IN  IF raised = NoException
        THEN [returned |-> TRUE, exc |-> NoException,
              current_beam |-> Beam(L, SIMPLY_SUPPORTED),
              current_load_system |-> get_input_load_system(app)]
        ELSE [returned |-> FALSE, exc |-> raised,
              current_beam |-> IF beam_made THEN Beam(L, SIMPLY_SUPPORTED) ELSE old_beam,
              current_load_system |-> old_load_system]

\* get_input_and_create_objects: the value returned, the exception caught and
\* the two objects of the window afterwards
get_input_and_create_objects(app, old_beam, old_load_system) ==
    LET raised == get_input_raises(app)
        L == float_of(app.length_input_field)
    IN  IF raised = NoException
        THEN [returned |-> TRUE, exc |-> NoException,
              current_beam |-> Beam(L, SIMPLY_SUPPORTED),
              current_load_system |-> get_input_load_system(app)]
        ELSE [returned |-> FALSE, exc |-> raised,
              current_beam |-> NoObject,
              current_load_system |-> NoObject]

\* the texts tried in each field; the first of each is the text the window
\* is created with
LengthTexts == {<<"1", "0", ".", "0">>, <<"0">>, <<"n", "a", "n">>}

W1Texts == {<<"5", "0", ".", "0">>, <<"a", "b", "c">>}

W2Texts == {<<"3", "0", ".", "0">>, <<" ", "-", "1", " ">>}

XTexts == {<<"2", ".", "5">>, <<>>}

WUdlTexts == {<<"1", "0", ".", "0">>, <<"-", "0", ".", "5">>}

LenUdlTexts == {<<"4", ".", "0">>, <<"0", ".", "0">>}

FieldTexts ==
    [length_input_field |-> LengthTexts, w1_input_field |-> W1Texts,
     w2_input_field |-> W2Texts, x_input_field |-> XTexts,
     w_udl_input_field |-> WUdlTexts, len_udl_input_field |-> LenUdlTexts]

\* BeamAnalysisApp.__init__ and create_input_panel
InitGui ==
    /\ pc = "window"
    /\ beam = NoObject
    /\ load_system = NoObject
    /\ res = NoObject
    /\ exc = NoException
    /\ call = [cls |-> "BeamAnalysisApp",
               length_input_field |-> <<"1", "0", ".", "0">>,
               w1_input_field |-> <<"5", "0", ".", "0">>,
               w2_input_field |-> <<"3", "0", ".", "0">>,
               x_input_field |-> <<"2", ".", "5">>,
               w_udl_input_field |-> <<"1", "0", ".", "0">>,
               len_udl_input_field |-> <<"4", ".", "0">>,
               point_load_radio |-> TRUE,
               udl_radio |-> FALSE,
               handler |-> "none", returned |-> FALSE, analysed |-> FALSE]

\* field.setText(text)
SetText(field, text) ==
    /\ pc = "window"
    /\ call' = [call EXCEPT ![field] = text, !.handler = "none",
                            !.returned = FALSE, !.analysed = FALSE]
    /\ UNCHANGED <<pc, beam, load_system, res, exc>>

\* point_load_radio.setChecked(True) or udl_radio.setChecked(True): the
\* buttons are in one exclusive group
SetChecked(point) ==
    /\ pc = "window"
    /\ call' = [call EXCEPT !.point_load_radio = point, !.udl_radio = ~point,
                            !.handler = "none", !.returned = FALSE,
                            !.analysed = FALSE]
    /\ UNCHANGED <<pc, beam, load_system, res, exc>>

\* ok = get_input_and_create_objects()
GetInputAndCreateObjects ==
    \E r \in {get_input_and_create_objects(call, beam, load_system)} :
        /\ pc = "window"
        /\ beam' = r.current_beam
        /\ load_system' = r.current_load_system
        /\ exc' = r.exc
        /\ call' = [call EXCEPT !.handler = "get_input_and_create_objects",
                                !.returned = r.returned, !.analysed = FALSE]
        /\ UNCHANGED <<pc, res>>

\* run_analysis: analyze_beam is reached
run_analysis_goes_on(returned, current_beam, current_load_system) ==
    returned /\ current_beam # NoObject /\ current_load_system # NoObject

\* the click on "Analyze Beam": run_analysis
RunAnalysis ==
    \E r \in {get_input_and_create_objects(call, beam, load_system)} :
        \E goes_on \in {run_analysis_goes_on(r.returned, r.current_beam,
                                             r.current_load_system)} :
            /\ pc = "window"
            /\ beam' = r.current_beam
            /\ load_system' = r.current_load_system
            /\ exc' = r.exc
            /\ res' = IF goes_on THEN analyze_beam(beam', load_system') ELSE res
            /\ call' = [call EXCEPT !.handler = "run_analysis",
                                    !.returned = r.returned, !.analysed = goes_on]
            /\ UNCHANGED pc

NextGui ==
    \/ \E field \in DOMAIN FieldTexts : \E text \in FieldTexts[field] : SetText(field, text)
    \/ \E point \in BOOLEAN : SetChecked(point)
    \/ GetInputAndCreateObjects
    \/ RunAnalysis

SpecGui == InitGui /\ [][NextGui]_vars

\* ------------------------------------------------------------------------
\* C21: in BeamAnalysisApp, after any sequence of calls to
\* get_input_and_create_objects: the call returns True exactly when the
\* length and the fields of the selected load type are valid, and then
\* current_beam and current_load_system are both set, the load system a
\* PointLoadSystem if the point radio is selected and a UDLLoadSystem if the
\* UDL radio is selected; when it returns False both are None (never a valid
\* beam paired with a missing or stale load system), and run_analysis then
\* performs no analysis.
\* ------------------------------------------------------------------------
\* the last thing done to the window was one of the two handlers
AfterCall == call.handler \in {"get_input_and_create_objects", "run_analysis"}

\* the text reads as a number
Reads(text) == float_of(text) # NotAFloat

\* the length and the fields of the selected load type read as numbers and
\* are in none of the rejected ranges (length <= 0; w1, w2, x < 0; w < 0;
\* length_udl <= 0)
FieldsValid ==
    /\ Reads(call.length_input_field)
    /\ ~Le(float_of(call.length_input_field), Zero)
    /\ call.point_load_radio \/ call.udl_radio
    /\ call.point_load_radio =>
           /\ Reads(call.w1_input_field) /\ ~Lt(float_of(call.w1_input_field), Zero)
           /\ Reads(call.w2_input_field) /\ ~Lt(float_of(call.w2_input_field), Zero)
           /\ Reads(call.x_input_field) /\ ~Lt(float_of(call.x_input_field), Zero)
    /\ call.udl_radio =>
           /\ Reads(call.w_udl_input_field) /\ ~Lt(float_of(call.w_udl_input_field), Zero)
           /\ Reads(call.len_udl_input_field)
           /\ ~Le(float_of(call.len_udl_input_field), Zero)

C21_WindowObjects ==
    /\ (beam = NoObject) <=> (load_system = NoObject)
    /\ AfterCall =>
           /\ call.returned <=> FieldsValid
           /\ call.returned =>
                  /\ beam = Beam(float_of(call.length_input_field), SIMPLY_SUPPORTED)
                  /\ call.point_load_radio =>
                         load_system = PointLoadSystem(float_of(call.w1_input_field),
                                                       float_of(call.w2_input_field),
                                                       float_of(call.x_input_field))
                  /\ call.udl_radio =>
                         load_system = UDLLoadSystem(float_of(call.w_udl_input_field),
                                                     float_of(call.len_udl_input_field))
           /\ ~call.returned => (beam = NoObject /\ load_system = NoObject)
           /\ (call.handler = "run_analysis" /\ ~call.returned) => ~call.analysed

\* a click on "Analyze Beam" with a good length and a bad load field, after
\* an earlier analysis: the beam built in the try block is gone again
C21_Witness ==
    /\ call.handler = "run_analysis"
    /\ ~call.returned
    /\ Gt(float_of(call.length_input_field), Zero)
    /\ res # NoObject
    /\ beam = NoObject
    /\ load_system = NoObject
    /\ ~call.analysed

\* ------------------------------------------------------------------------
\* Requests with infinite arguments: the constructors accept float('inf')
\* ------------------------------------------------------------------------
LengthsInf == Lengths \cup {Inf}

LoadsInf == Loads \cup {Inf}

DistsInf == Dists \cup {Inf}

NextInf ==
    \/ \E length \in LengthsInf, beam_type \in BeamTypes : BeamInit(length, beam_type)
    \/ \E w1 \in LoadsInf, w2 \in LoadsInf, x \in DistsInf : PointLoadSystemInit(w1, w2, x)
    \/ \E w \in LoadsInf, length_udl \in DistsInf : UDLLoadSystemInit(w, length_udl)
    \/ \E tag \in OtherLoadTypes : OtherLoadSystemInit(tag)
    \/ AnalyzeBeam
    \/ Discard

SpecInf == Init /\ [][NextInf]_vars

\* ------------------------------------------------------------------------
\* C22: in the general point-load case (W1 > 0, W2 > 0, 0 < x < L) both
\* candidate positions are always geometrically valid
\* (0 < z1 < L/2 < z2 < L) and M1 >= 0, so the fallback branch that assigns
\* max(W1, W2)*L/4 when neither candidate is valid is never reached.
\* ------------------------------------------------------------------------
\* the candidates are in order, M1 is a moment and the cascade ends in one
\* of the two candidate branches, whose values the result holds
CandidatesValid ==
    LET L == beam.length
        W1 == load_system.w1
        W2 == load_system.w2
        x == load_system.x
        z1 == cand_z1(L, W1, W2, x)
        z2 == cand_z2(L, W1, W2, x)
        chosen == general_BM_max(L, W1, W2, x)
    IN  /\ Lt(Zero, z1) /\ Lt(z1, Div(L, Two))
        /\ Lt(Div(L, Two), z2) /\ Lt(z2, L)
        /\ Ge(cand_M1(L, W1, W2, x), Zero)
        /\ chosen[3] # "fallback"
        /\ res.BM_max = chosen[1]
        /\ res.z_BM_max = chosen[2]

C22_FallbackNeverReached == GeneralPoint => CandidatesValid

\* the span, the loads and their distance are finite numbers
FiniteArguments ==
    /\ IsNum(beam.length)
    /\ IsNum(load_system.w1)
    /\ IsNum(load_system.w2)
    /\ IsNum(load_system.x)

\* C22, amended: the same for finite L, W1, W2 and x
C22_FallbackNeverReachedFinite == (GeneralPoint /\ FiniteArguments) => CandidatesValid

\* a general case with finite arguments in which candidate (ii) is chosen
C22_Witness ==
    /\ GeneralPoint
    /\ FiniteArguments
    /\ general_BM_max(beam.length, load_system.w1, load_system.w2, load_system.x)[3] = "M2"
    /\ res.z_BM_max = cand_z2(beam.length, load_system.w1, load_system.w2, load_system.x)

\* with an infinite argument the general case ends in the fallback branch
\* (not the claim: recorded for the divergence)
C22_InfiniteTakesFallback ==
    (GeneralPoint /\ ~FiniteArguments) =>
        general_BM_max(beam.length, load_system.w1, load_system.w2, load_system.x)[3]
            = "fallback"

====
